---- MODULE Spec2Model ----
(***************************************************************************)
(* Model of the data-normalization notebook notebooks/data_norm_class.ipynb *)
(* and of the normalize_data function it calls.                             *)
(*                                                                          *)
(* A table (pandas DataFrame) is a record                                   *)
(*     [index   |-> sequence of index column names,                         *)
(*      columns |-> set of the other column names,                          *)
(*      rows    |-> sequence of rows]                                       *)
(* where a row is a record over all the columns of the table, the index     *)
(* columns included.  Cells are integers; names are coded as small          *)
(* integers.  A missing value (NaN / None) is NULL.                         *)
(***************************************************************************)
EXTENDS Integers, Sequences, FiniteSets, TLC

VARIABLES
    aarc_sample_raw,  \* the flat table read by read_raw_aarc_data:
                      \* [columns |-> set of column names, rows |-> sequence]
    aarc_nf,          \* the bundle returned by normalize_data, or NONE
    l_join,           \* the left join of cell 5c2b4755, or NONE
    r_join,           \* the right join of cell 2497661a, or NONE
    out,              \* what the last executed cell did: [cell, reads, value]
    conn,             \* the SQLite database: relation name -> sequence of rows
    error             \* the exception raised by the last cell, or "none"

vars == <<aarc_sample_raw, aarc_nf, l_join, r_join, out, conn, error>>

-----------------------------------------------------------------------------
(* Bounds of the model *)

MaxRows == 2        \* rows of the flat input table

-----------------------------------------------------------------------------
(* Values *)

NULL == -1          \* NaN / None: a missing cell
NONE == [unset |-> TRUE]   \* a notebook name that is not assigned yet

isna(v) == v = NULL

Range(s) == {s[i] : i \in DOMAIN s}

Min(S) == CHOOSE x \in S : \A y \in S : x <= y

RECURSIVE SetToSeq(_)
SetToSeq(S) == IF S = {} THEN <<>>
               ELSE LET x == CHOOSE y \in S : TRUE
                    IN <<x>> \o SetToSeq(S \ {x})

(* The columns of the flat file that normalize_data reads. *)
PersonColumns == {"Gender", "DegreeYear", "PersonName", "DegreeInstitutionId"}
AppointmentKey == <<"PersonId", "Year", "DepartmentId", "InstitutionId">>
AppointmentColumns == {"Rank", "PrimaryAppointment"}
RawColumns ==
    {"PersonId", "Year", "DepartmentId", "InstitutionId"}
        \cup PersonColumns \cup AppointmentColumns
        \cup {"DepartmentName", "InstitutionName", "Umbrella", "Field"}

-----------------------------------------------------------------------------
(* pandas: groupby(by, dropna).aggregate({col: "first"}) *)

KeyOf(row, by) == [i \in DOMAIN by |-> row[by[i]]]

HasNa(key) == \E i \in DOMAIN key : isna(key[i])

(* Group keys are sorted; with dropna=False the NaN keys sort last. *)
ValLess(x, y) == IF isna(x) THEN FALSE ELSE IF isna(y) THEN TRUE ELSE x < y

KeyLess(a, b) ==
    \E i \in DOMAIN a : /\ ValLess(a[i], b[i])
                        /\ \A j \in 1..(i - 1) : a[j] = b[j]

(* group keys with the dropna argument ignored: null keys always dropped *)
GroupKeys_dropna(df, by, dropna) ==
    {k \in {KeyOf(df[n], by) : n \in DOMAIN df} : ~HasNa(k)}

GroupKeys(df, by, dropna) ==
    {k \in {KeyOf(df[n], by) : n \in DOMAIN df} : dropna => ~HasNa(k)}

(* the value of the first row of the group, null or not *)
first_row(df, by, key, col) ==
    df[Min({n \in DOMAIN df : KeyOf(df[n], by) = key})][col]

(* "first": the first non-null value of the column within the group. *)
first(df, by, key, col) ==
    LET idx == {n \in DOMAIN df : KeyOf(df[n], by) = key /\ ~isna(df[n][col])}
    IN IF idx = {} THEN NULL ELSE df[Min(idx)][col]

IndexOf(by, c) == CHOOSE i \in DOMAIN by : by[i] = c

groupby_first(df, by, agg, dropna) ==
    LET keys == SortSeq(SetToSeq(GroupKeys(df, by, dropna)), KeyLess)
    IN [index |-> by,
        columns |-> agg,
        rows  |-> [g \in DOMAIN keys |->
                     [c \in Range(by) \cup agg |->
                        IF c \in Range(by) THEN keys[g][IndexOf(by, c)]
                        ELSE first(df, by, keys[g], c)]]]

(* pandas: drop_duplicates() keeps the first occurrence, in row order. *)
RECURSIVE drop_duplicates(_)
drop_duplicates(s) ==
    IF s = <<>> THEN <<>>
    ELSE LET front == drop_duplicates(SubSeq(s, 1, Len(s) - 1))
             last  == s[Len(s)]
         IN IF last \in Range(front) THEN front ELSE Append(front, last)

-----------------------------------------------------------------------------
(* normalize_data *)

(* The columns normalize_data needs; a flat table without one of them is
   rejected before any table is built. *)
MissingColumns(df) == RawColumns \ df.columns

(* df_persons built with set_index, without the groupby *)
df_persons_set_index(df_data) ==
    [index   |-> <<"PersonId">>,
     columns |-> PersonColumns,
     rows    |-> [n \in DOMAIN df_data |->
                    [c \in {"PersonId"} \cup PersonColumns |-> df_data[n][c]]]]

df_persons(df_data) == groupby_first(df_data, <<"PersonId">>, PersonColumns, TRUE)

(* df_appointments grouped with the default dropna=True *)
df_appointments_dropna(df_data) ==
    groupby_first(df_data, AppointmentKey, AppointmentColumns, TRUE)

(* df_appointments grouped without InstitutionId *)
df_appointments_no_institution(df_data) ==
    groupby_first(df_data, <<"PersonId", "Year", "DepartmentId">>,
                  AppointmentColumns, FALSE)

df_appointments(df_data) ==
    groupby_first(df_data, AppointmentKey, AppointmentColumns, FALSE)

df_institutions(df_data) ==
    groupby_first(df_data, <<"InstitutionId">>, {"InstitutionName"}, TRUE)

df_departments(df_data) ==
    groupby_first(df_data, <<"DepartmentId">>, {"DepartmentName"}, TRUE)

(* Artificial ids: the distinct values of a name column in first-seen order
   are numbered IdBase, IdBase + 1, ... *)
IdBase == 0

Distinct(df_data, col) ==
    drop_duplicates(SelectSeq([n \in DOMAIN df_data |-> df_data[n][col]],
                              LAMBDA v : ~isna(v)))

(* ids numbered in the sorted order of the values *)
SynthId_sorted(df_data, col, v) ==
    IF isna(v) THEN NULL
    ELSE IdBase + Cardinality({w \in Range(Distinct(df_data, col)) : w < v})

SynthId(df_data, col, v) ==
    IF isna(v) THEN NULL
    ELSE LET names == Distinct(df_data, col)
         IN IdBase + (CHOOSE i \in DOMAIN names : names[i] = v) - 1

df_umbrellas(df_data) ==
    LET names == Distinct(df_data, "Umbrella")
    IN [index |-> <<"UmbrellaId">>,
        columns |-> {"Umbrella"},
        rows  |-> [i \in DOMAIN names |->
                     [UmbrellaId |-> IdBase + i - 1, Umbrella |-> names[i]]]]

df_fields(df_data) ==
    LET names == Distinct(df_data, "Field")
    IN [index |-> <<"FieldId">>,
        columns |-> {"Field"},
        rows  |-> [i \in DOMAIN names |->
                     [FieldId |-> IdBase + i - 1, Field |-> names[i]]]]

(* department_taxonomies deduplicated by a groupby, which drops null keys *)
df_department_taxonomies_groupby(df_data) ==
    LET t == groupby_first(
                 [n \in DOMAIN df_data |->
                    [DepartmentId |-> df_data[n].DepartmentId,
                     UmbrellaId   |-> SynthId(df_data, "Umbrella", df_data[n].Umbrella),
                     FieldId      |-> SynthId(df_data, "Field", df_data[n].Field)]],
                 <<"DepartmentId", "UmbrellaId", "FieldId">>, {}, TRUE)
    IN [index   |-> <<>>,
        columns |-> {"DepartmentId", "UmbrellaId", "FieldId"},
        rows    |-> t.rows]

df_department_taxonomies(df_data) ==
    [index |-> <<>>,
     columns |-> {"DepartmentId", "UmbrellaId", "FieldId"},
     rows  |-> drop_duplicates(
                 [n \in DOMAIN df_data |->
                    [DepartmentId |-> df_data[n].DepartmentId,
                     UmbrellaId   |-> SynthId(df_data, "Umbrella", df_data[n].Umbrella),
                     FieldId      |-> SynthId(df_data, "Field", df_data[n].Field)]])]

(* The AARCCollection returned by normalize_data. *)
normalize_data(df_data) ==
    [persons               |-> df_persons(df_data),
     institutions          |-> df_institutions(df_data),
     departments           |-> df_departments(df_data),
     appointments          |-> df_appointments(df_data),
     umbrellas             |-> df_umbrellas(df_data),
     fields                |-> df_fields(df_data),
     department_taxonomies |-> df_department_taxonomies(df_data)]

-----------------------------------------------------------------------------
(* pandas: DataFrame.join(other, on, how) matches the values of the `on`
   column of the calling table to the index of the other table. *)

AllColumns(t) == Range(t.index) \cup t.columns

JoinRow(t, other, lrow, rrow) ==
    [c \in AllColumns(t) \cup other.columns |->
        IF c \in other.columns THEN rrow[c] ELSE lrow[c]]

NullRow(cols) == [c \in cols |-> NULL]

Matches(other, v) ==
    LET k == other.index[1]
    IN SelectSeq(other.rows, LAMBDA r : r[k] = v)

RECURSIVE Flatten(_)
Flatten(ss) == IF ss = <<>> THEN <<>> ELSE Head(ss) \o Flatten(Tail(ss))

(* a join that keeps only the rows of the calling table that find a match *)
LeftRows_inner(t, other, on) ==
    Flatten([n \in DOMAIN t.rows |->
        LET ms == Matches(other, t.rows[n][on])
        IN [m \in DOMAIN ms |-> JoinRow(t, other, t.rows[n], ms[m])]])

LeftRows(t, other, on) ==
    Flatten([n \in DOMAIN t.rows |->
        LET ms == Matches(other, t.rows[n][on])
        IN IF ms = <<>>
           THEN <<JoinRow(t, other, t.rows[n], NullRow(other.columns))>>
           ELSE [m \in DOMAIN ms |-> JoinRow(t, other, t.rows[n], ms[m])]])

(* a join that ignores how="right" and keeps the rows of the calling table *)
RightRows_left(t, other, on) == LeftRows(t, other, on)

RightRows(t, other, on) ==
    Flatten([m \in DOMAIN other.rows |->
        LET v  == other.rows[m][other.index[1]]
            ls == SelectSeq(t.rows, LAMBDA r : r[on] = v)
        IN IF ls = <<>>
           THEN <<JoinRow(t, other,
                          [NullRow(AllColumns(t)) EXCEPT ![on] = v],
                          other.rows[m])>>
           ELSE [n \in DOMAIN ls |-> JoinRow(t, other, ls[n], other.rows[m])]])

UnmatchedRight(t, other, on) ==
    LET k == other.index[1]
        rs == SelectSeq(other.rows,
                        LAMBDA r : \A n \in DOMAIN t.rows : t.rows[n][on] # r[k])
    IN [m \in DOMAIN rs |->
          JoinRow(t, other, [NullRow(AllColumns(t)) EXCEPT ![on] = rs[m][k]], rs[m])]

join(t, other, on, how) ==
    [index   |-> t.index,
     columns |-> t.columns \cup other.columns,
     rows    |-> CASE how = "left"  -> LeftRows(t, other, on)
                   [] how = "right" -> RightRows(t, other, on)
                   [] how = "outer" -> LeftRows(t, other, on)
                                         \o UnmatchedRight(t, other, on)]

(* frame[cols]: the projection onto some of the non-index columns. *)
Project(t, cols) ==
    [index   |-> t.index,
     columns |-> cols,
     rows    |-> [n \in DOMAIN t.rows |->
                    [c \in Range(t.index) \cup cols |-> t.rows[n][c]]]]

(* frame[frame[col].isna()] *)
WhereNa(t, col) == [t EXCEPT !.rows = SelectSeq(t.rows, LAMBDA r : isna(r[col]))]

(* groupby(by)[col].nunique() and groupby(by).size(), with the default
   dropna=True and sorted group keys *)
groupby_nunique(df, by, col) ==
    LET keys == SortSeq(SetToSeq(GroupKeys(df, by, TRUE)), KeyLess)
    IN [g \in DOMAIN keys |->
          [key |-> keys[g],
           n   |-> Cardinality({df[i][col] : i \in
                      {j \in DOMAIN df : KeyOf(df[j], by) = keys[g]
                                          /\ ~isna(df[j][col])}})]]

groupby_size(df, by) ==
    LET keys == SortSeq(SetToSeq(GroupKeys(df, by, TRUE)), KeyLess)
    IN [g \in DOMAIN keys |->
          [key |-> keys[g],
           n   |-> Cardinality({j \in DOMAIN df : KeyOf(df[j], by) = keys[g]})]]

-----------------------------------------------------------------------------
(* pandas: DataFrame.to_sql(name, con, if_exists, index).  A relation of the
   database is [index_label |-> the columns written from the index,
   rows |-> its rows]. *)

(* to_sql that appends to an existing relation whatever if_exists says *)
to_sql_append(frame, name, con, if_exists, index) ==
    LET relation == [index_label |-> frame.index, rows |-> frame.rows]
    IN IF name \notin DOMAIN con THEN (name :> relation) @@ con
       ELSE [con EXCEPT ![name].rows = @ \o frame.rows]

to_sql(frame, name, con, if_exists, index) ==
    LET written == IF index THEN frame
                   ELSE [index   |-> <<>>,
                         columns |-> frame.columns,
                         rows    |-> [n \in DOMAIN frame.rows |->
                                        [c \in frame.columns |-> frame.rows[n][c]]]]
        relation == [index_label |-> written.index, rows |-> written.rows]
    IN IF name \notin DOMAIN con THEN (name :> relation) @@ con
       ELSE CASE if_exists = "replace" -> (name :> relation) @@ con
              [] if_exists = "append"  ->
                   [con EXCEPT ![name].rows = @ \o written.rows]
              [] if_exists = "fail"    -> con

-----------------------------------------------------------------------------
(* The flat input tables.  PersonId, DepartmentId and Year are never missing:
   with Taxonomy they are the compound key of the raw file.  InstitutionId,
   the attributes and Field may be missing. *)

Row(p, y, d, i, iname, deg, g, rk, dname, u, f) ==
    [PersonId |-> p, Year |-> y, DepartmentId |-> d, InstitutionId |-> i,
     Gender |-> g, DegreeYear |-> 1990 + p, PersonName |-> 100 + p,
     DegreeInstitutionId |-> deg,
     Rank |-> rk, PrimaryAppointment |-> 1,
     DepartmentName |-> dname, InstitutionName |-> iname,
     Umbrella |-> u, Field |-> f]

PersonIds == {1, 2}
Years == {2020, 2021}
DepartmentIds == {1, 2}
InstitutionIds == {NULL, 10}
Names == {NULL, 1, 2}

(* rows that vary the attributes of a person over the years *)
PersonRows ==
    {Row(1, y, 1, 10, 1, 10, g, 1, 1, 1, 1) : y \in Years, g \in Names}

(* rows that vary the institution and the degree institution *)
InstitutionRows ==
    {Row(1, 2020, 1, i, iname, deg, 1, 1, 1, 1, 1) :
        i \in InstitutionIds, iname \in {NULL, 1}, deg \in {NULL, 10, 20}}
      \ {Row(1, 2020, 1, 10, NULL, deg, 1, 1, 1, 1, 1) : deg \in {NULL, 10, 20}}

(* rows that vary the appointment key and its attributes *)
AppointmentRows ==
    {Row(p, 2020, 1, i, IF isna(i) THEN NULL ELSE 1, NULL, 1, rk, 1, 1, 1) :
        p \in PersonIds, i \in InstitutionIds, rk \in Names}

(* rows that vary the department attributes *)
DepartmentRows ==
    {Row(1, 2020, d, 10, 1, 10, 1, 1, dname, 1, 1) :
        d \in DepartmentIds, dname \in Names}

(* rows that vary the appointment and the umbrella of its department *)
UmbrellaRows ==
    {Row(p, 2020, d, 10, 1, 10, 1, 1, d, u, 1) :
        p \in PersonIds, d \in DepartmentIds, u \in {1, 2}}

(* rows that vary the department and its taxonomy *)
TaxonomyRows ==
    {Row(1, 2020, d, 10, 1, 10, 1, 1, d, u, f) :
        d \in DepartmentIds, u \in {1, 2}, f \in {NULL, 1}}

RowFamilies ==
    {PersonRows, InstitutionRows, AppointmentRows, DepartmentRows,
     UmbrellaRows, TaxonomyRows}

SeqsUpTo(S, n) == UNION {[1..k -> S] : k \in 0..n}

FlatTables ==
    {[columns |-> RawColumns, rows |-> rows] :
        rows \in UNION {SeqsUpTo(F, MaxRows) : F \in RowFamilies}}

(* flat files that lack one of the columns *)
DropColumn(row, c) == [x \in (DOMAIN row) \ {c} |-> row[x]]

IncompleteTables ==
    {[columns |-> RawColumns \ {c},
      rows    |-> [n \in DOMAIN rows |-> DropColumn(rows[n], c)]] :
        c \in RawColumns, rows \in SeqsUpTo(InstitutionRows, 1)}

-----------------------------------------------------------------------------
(* The notebook.  Init is the state after cell 4b196149 has read the file;
   every other action is a code cell, executed in any order. *)

Cell(id, reads, value) == [cell |-> id, reads |-> reads, value |-> value]

Init ==
    /\ aarc_sample_raw \in FlatTables \cup IncompleteTables
    /\ aarc_nf = NONE
    /\ l_join = NONE
    /\ r_join = NONE
    /\ out = Cell("4b196149", {}, <<>>)
    /\ conn = <<>>
    /\ error = "none"

(* the cell binding a degraded, empty bundle when normalize_data raises *)
NormalizeDegraded ==
    /\ IF MissingColumns(aarc_sample_raw) # {}
       THEN /\ error' = "MissingColumnError"
            /\ aarc_nf' = normalize_data(<<>>)
       ELSE /\ error' = "none"
            /\ aarc_nf' = normalize_data(aarc_sample_raw.rows)
    /\ out' = Cell("25306cd4", {}, <<>>)
    /\ UNCHANGED <<aarc_sample_raw, l_join, r_join, conn>>

(* cell 25306cd4: aarc_nf = normalize_data(aarc_sample_raw) *)
Normalize ==
    /\ IF MissingColumns(aarc_sample_raw) # {}
       THEN /\ error' = "MissingColumnError"
            /\ aarc_nf' = aarc_nf
       ELSE /\ error' = "none"
            /\ aarc_nf' = normalize_data(aarc_sample_raw.rows)
    /\ out' = Cell("25306cd4", {}, <<>>)
    /\ UNCHANGED <<aarc_sample_raw, l_join, r_join, conn>>

(* the cell reading the tables under the names of the ER diagram *)
JoinUmbrellasByDiagramNames ==
    /\ aarc_nf # NONE
    /\ out' = Cell("7962e300", {"department_taxonomy", "taxonomies"}, <<>>)
    /\ error' = "none"
    /\ UNCHANGED <<aarc_sample_raw, aarc_nf, l_join, r_join, conn>>

(* cell 7962e300: departments per umbrella *)
JoinUmbrellas ==
    /\ aarc_nf # NONE
    /\ LET joined == join(aarc_nf.department_taxonomies, aarc_nf.umbrellas,
                          "UmbrellaId", "left")
       IN out' = Cell("7962e300", {"department_taxonomies", "umbrellas"},
                      groupby_nunique(joined.rows, <<"UmbrellaId", "Umbrella">>,
                                      "DepartmentId"))
    /\ error' = "none"
    /\ UNCHANGED <<aarc_sample_raw, aarc_nf, l_join, r_join, conn>>

(* cell fa5a0faf: annual department sizes per gender *)
JoinGender ==
    /\ aarc_nf # NONE
    /\ LET joined == join(aarc_nf.appointments,
                          Project(aarc_nf.persons, {"Gender"}),
                          "PersonId", "left")
       IN out' = Cell("fa5a0faf", {"appointments", "persons"},
                      groupby_size(joined.rows,
                                   <<"DepartmentId", "Gender", "Year">>))
    /\ error' = "none"
    /\ UNCHANGED <<aarc_sample_raw, aarc_nf, l_join, r_join, conn>>

(* cell abdacb0f: aarc_nf.department_taxonomies.isna().sum() *)
IsnaSum ==
    /\ aarc_nf # NONE
    /\ LET t == aarc_nf.department_taxonomies
       IN out' = Cell("abdacb0f", {"department_taxonomies"},
                      [c \in t.columns |-> Len(WhereNa(t, c).rows)])
    /\ error' = "none"
    /\ UNCHANGED <<aarc_sample_raw, aarc_nf, l_join, r_join, conn>>

(* the left join stored back into the bundle *)
LeftJoinInPlace ==
    /\ aarc_nf # NONE
    /\ l_join' = join(aarc_nf.department_taxonomies, aarc_nf.fields,
                      "FieldId", "left")
    /\ aarc_nf' = [aarc_nf EXCEPT !.department_taxonomies = l_join']
    /\ out' = Cell("5c2b4755", {"department_taxonomies", "fields"},
                   WhereNa(l_join', "FieldId").rows)
    /\ error' = "none"
    /\ UNCHANGED <<aarc_sample_raw, r_join, conn>>

(* cell 5c2b4755 *)
LeftJoin ==
    /\ aarc_nf # NONE
    /\ l_join' = join(aarc_nf.department_taxonomies, aarc_nf.fields,
                      "FieldId", "left")
    /\ out' = Cell("5c2b4755", {"department_taxonomies", "fields"},
                   WhereNa(l_join', "FieldId").rows)
    /\ error' = "none"
    /\ UNCHANGED <<aarc_sample_raw, aarc_nf, r_join, conn>>

(* cell 2497661a *)
RightJoin ==
    /\ aarc_nf # NONE
    /\ r_join' = join(aarc_nf.department_taxonomies, aarc_nf.fields,
                      "FieldId", "right")
    /\ out' = Cell("2497661a", {"department_taxonomies", "fields"},
                   WhereNa(r_join', "FieldId").rows)
    /\ error' = "none"
    /\ UNCHANGED <<aarc_sample_raw, aarc_nf, l_join, conn>>

(* cell d90e378b *)
OuterJoin ==
    /\ aarc_nf # NONE
    /\ out' = Cell("d90e378b", {"department_taxonomies", "fields"},
                   Len(join(aarc_nf.department_taxonomies, aarc_nf.fields,
                            "FieldId", "outer").rows))
    /\ error' = "none"
    /\ UNCHANGED <<aarc_sample_raw, aarc_nf, l_join, r_join>>
    /\ UNCHANGED conn

(* cell fbefbe16: write persons and appointments to the database.  The query
   that follows only reads the two relations. *)
Persist ==
    /\ aarc_nf # NONE
    /\ conn' = to_sql(aarc_nf.appointments, "appointments",
                      to_sql(aarc_nf.persons, "persons", conn, "replace", TRUE),
                      "replace", TRUE)
    /\ out' = Cell("fbefbe16", {"persons", "appointments"}, <<>>)
    /\ error' = "none"
    /\ UNCHANGED <<aarc_sample_raw, aarc_nf, l_join, r_join>>

Next ==
    \/ Normalize
    \/ JoinUmbrellas
    \/ JoinGender
    \/ IsnaSum
    \/ LeftJoin
    \/ RightJoin
    \/ OuterJoin
    \/ Persist

Spec == Init /\ [][Next]_vars

-----------------------------------------------------------------------------
(* Keys of the tables of the bundle *)

TableNames ==
    {"persons", "institutions", "departments", "appointments",
     "umbrellas", "fields", "department_taxonomies"}

(* department_taxonomies carries its key as columns. *)
PrimaryKey(name) ==
    IF name = "department_taxonomies"
    THEN <<"DepartmentId", "UmbrellaId", "FieldId">>
    ELSE aarc_nf[name].index

KeyUnique(rows, key) ==
    \A m, n \in DOMAIN rows :
        m # n => KeyOf(rows[m], key) # KeyOf(rows[n], key)

KeyNonNull(rows, key) == \A n \in DOMAIN rows : ~HasNa(KeyOf(rows[n], key))

KeyValues(t) == {t.rows[n][t.index[1]] : n \in DOMAIN t.rows}

RawRows == Range(aarc_sample_raw.rows)

(* C1, as stated: every table of the bundle has a primary key that is unique
   and has no null component. *)
C1_KeysUniqueAndNonNull ==
    aarc_nf # NONE =>
        \A name \in TableNames :
            /\ KeyUnique(aarc_nf[name].rows, PrimaryKey(name))
            /\ KeyNonNull(aarc_nf[name].rows, PrimaryKey(name))

(* C1, amended: every table of the bundle has a unique primary key, and a key
   component is null only for InstitutionId in appointments (grouped with
   dropna=False) and FieldId in department_taxonomies, and then only because
   the flat table has a row with that value missing. *)
C1_KeysUniqueNullOnlyWhereMissing ==
    aarc_nf # NONE =>
        \A name \in TableNames :
            LET rows == aarc_nf[name].rows
                key  == PrimaryKey(name)
            IN /\ KeyUnique(rows, key)
               /\ \A n \in DOMAIN rows : \A i \in DOMAIN key :
                    isna(rows[n][key[i]]) =>
                        \/ /\ name = "appointments"
                           /\ key[i] = "InstitutionId"
                           /\ \E r \in RawRows :
                                /\ isna(r.InstitutionId)
                                /\ r.PersonId = rows[n].PersonId
                                /\ r.Year = rows[n].Year
                                /\ r.DepartmentId = rows[n].DepartmentId
                        \/ /\ name = "department_taxonomies"
                           /\ key[i] = "FieldId"
                           /\ \E r \in RawRows :
                                /\ isna(r.Field)
                                /\ r.DepartmentId = rows[n].DepartmentId

(* C1 witness: a bundle whose appointments hold two rows of one person, one
   of them with a null InstitutionId, built from repeated input keys. *)
C1_Witness ==
    /\ aarc_nf # NONE
    /\ Len(aarc_nf.appointments.rows) = 2
    /\ \E n \in DOMAIN aarc_nf.appointments.rows :
         isna(aarc_nf.appointments.rows[n].InstitutionId)
    /\ Len(aarc_nf.persons.rows) = 1
    /\ Len(aarc_sample_raw.rows) = 2

(* Foreign keys *)
ForeignKeyOk(t, col, ref, nullable) ==
    \A n \in DOMAIN t.rows :
        \/ nullable /\ isna(t.rows[n][col])
        \/ t.rows[n][col] \in KeyValues(ref)

(* C2: every foreign key of appointments, department_taxonomies and persons
   is null (where nullable) or a primary key of the referenced table. *)
C2_ForeignKeysResolve ==
    aarc_nf # NONE =>
        /\ ForeignKeyOk(aarc_nf.appointments, "PersonId", aarc_nf.persons, FALSE)
        /\ ForeignKeyOk(aarc_nf.appointments, "DepartmentId",
                        aarc_nf.departments, FALSE)
        /\ ForeignKeyOk(aarc_nf.appointments, "InstitutionId",
                        aarc_nf.institutions, TRUE)
        /\ ForeignKeyOk(aarc_nf.persons, "DegreeInstitutionId",
                        aarc_nf.institutions, TRUE)
        /\ ForeignKeyOk(aarc_nf.department_taxonomies, "DepartmentId",
                        aarc_nf.departments, FALSE)
        /\ ForeignKeyOk(aarc_nf.department_taxonomies, "UmbrellaId",
                        aarc_nf.umbrellas, FALSE)
        /\ ForeignKeyOk(aarc_nf.department_taxonomies, "FieldId",
                        aarc_nf.fields, TRUE)

-----------------------------------------------------------------------------
(* Round trip *)

(* All tables of a bundle joined on their keys, projected onto the columns of
   the flat table: the set of rows obtained. *)
Rejoin(nf) ==
    LET a1 == join(nf.appointments, nf.persons, "PersonId", "left")
        a2 == join(a1, nf.departments, "DepartmentId", "left")
        a3 == join(a2, nf.institutions, "InstitutionId", "left")
        dt == [index   |-> <<"DepartmentId">>,
               columns |-> {"UmbrellaId", "FieldId"},
               rows    |-> nf.department_taxonomies.rows]
        a4 == join(a3, dt, "DepartmentId", "left")
        a5 == join(a4, nf.umbrellas, "UmbrellaId", "left")
        a6 == join(a5, nf.fields, "FieldId", "left")
    IN {[c \in RawColumns |-> a6.rows[n][c]] : n \in DOMAIN a6.rows}

(* The rows of every group formed by normalize_data agree on each attribute. *)
Agree(by, cols, dropna) ==
    \A r1, r2 \in RawRows :
        /\ KeyOf(r1, by) = KeyOf(r2, by)
        /\ dropna => ~HasNa(KeyOf(r1, by))
        => \A c \in cols : r1[c] = r2[c]

GroupsAgree ==
    /\ Agree(<<"PersonId">>, PersonColumns, TRUE)
    /\ Agree(AppointmentKey, AppointmentColumns, FALSE)
    /\ Agree(<<"InstitutionId">>, {"InstitutionName"}, TRUE)
    /\ Agree(<<"DepartmentId">>, {"DepartmentName"}, TRUE)

(* The flat table holds every appointment of a department with every
   taxonomy of that department. *)
JoinClosed ==
    \A r1, r2 \in RawRows :
        r1.DepartmentId = r2.DepartmentId =>
            \E r3 \in RawRows :
                /\ KeyOf(r3, AppointmentKey) = KeyOf(r1, AppointmentKey)
                /\ r3.Umbrella = r2.Umbrella
                /\ r3.Field = r2.Field

(* A row without an institution has no institution name. *)
NoNameWithoutKey ==
    \A r \in RawRows : isna(r.InstitutionId) => isna(r.InstitutionName)

(* C3, as stated: when the rows of each group agree on each attribute, the
   re-joined bundle is exactly the set of distinct rows of the flat table. *)
C3_RoundTrip ==
    (aarc_nf # NONE /\ GroupsAgree) => Rejoin(aarc_nf) = RawRows

(* C3, amended: when the rows of each group agree on each attribute, the flat
   table holds every combination of a department's appointments and
   taxonomies, and rows without InstitutionId have no InstitutionName, the
   re-joined bundle is exactly the set of distinct rows of the flat table. *)
C3_RoundTripOfJoinClosedTable ==
    (aarc_nf # NONE /\ GroupsAgree /\ JoinClosed /\ NoNameWithoutKey)
        => Rejoin(aarc_nf) = RawRows

(* C3 witness: a normalized two-row table that meets the assumptions, with a
   department of two taxonomies, or an appointment without institution. *)
C3_Witness ==
    /\ aarc_nf # NONE
    /\ GroupsAgree /\ JoinClosed /\ NoNameWithoutKey
    /\ Cardinality(RawRows) = 2
    /\ Len(aarc_nf.department_taxonomies.rows) = 2
    /\ Len(aarc_nf.departments.rows) = 1
    /\ Rejoin(aarc_nf) = RawRows

-----------------------------------------------------------------------------
(* Errors and frame *)

(* C5: a flat table that lacks a column makes normalize_data raise
   MissingColumnError, and no bundle, partial or degraded, is bound; a
   complete table raises nothing. *)
C5_MissingColumnRaises ==
    /\ MissingColumns(aarc_sample_raw) # {} =>
          /\ aarc_nf = NONE
          /\ out.cell = "25306cd4" => error = "MissingColumnError"
    /\ MissingColumns(aarc_sample_raw) = {} => error = "none"

(* C5 witness: normalize_data has been called on a table without PersonId. *)
C5_Witness ==
    /\ "PersonId" \notin aarc_sample_raw.columns
    /\ Len(aarc_sample_raw.rows) = 1
    /\ out.cell = "25306cd4"
    /\ error = "MissingColumnError"
    /\ aarc_nf = NONE

(* C6: no cell changes the flat table, and once the bundle is bound no cell,
   join, analysis or persist, changes any of its tables. *)
C6_InputAndBundleUnchanged ==
    [][/\ aarc_sample_raw' = aarc_sample_raw
       /\ aarc_nf # NONE => aarc_nf' = aarc_nf]_vars

(* C6 witness: both joins and the persist cell have run on a bundle with a
   department that has no field. *)
C6_Witness ==
    /\ aarc_nf # NONE
    /\ l_join # NONE /\ r_join # NONE
    /\ conn # <<>>
    /\ Len(l_join.rows) = 2
    /\ \E n \in DOMAIN l_join.rows : isna(l_join.rows[n].FieldId)

(* C7: a department whose field is missing in the flat table does not stop
   normalization, and department_taxonomies holds a row for that department
   with its umbrella and a null FieldId. *)
C7_NullForeignKeyKept ==
    aarc_nf # NONE =>
        /\ error = "none"
        /\ \A r \in RawRows :
             isna(r.Field) =>
                \E n \in DOMAIN aarc_nf.department_taxonomies.rows :
                    LET t == aarc_nf.department_taxonomies.rows[n]
                    IN /\ t.DepartmentId = r.DepartmentId
                       /\ isna(t.FieldId)
                       /\ \E m \in DOMAIN aarc_nf.umbrellas.rows :
                            /\ aarc_nf.umbrellas.rows[m].UmbrellaId = t.UmbrellaId
                            /\ aarc_nf.umbrellas.rows[m].Umbrella = r.Umbrella

(* C7 witness: the bundle of a table with one department without field and
   one with a field. *)
C7_Witness ==
    /\ aarc_nf # NONE
    /\ \E r1, r2 \in RawRows :
         /\ isna(r1.Field) /\ ~isna(r2.Field)
         /\ r1.DepartmentId # r2.DepartmentId
    /\ Len(aarc_nf.department_taxonomies.rows) = 2
    /\ Len(aarc_nf.fields.rows) = 1

(* C8: every table of the bundle has as many rows as the flat table has
   distinct values of its key, however often a key repeats. *)
C8_OneRowPerDistinctKey ==
    aarc_nf # NONE =>
        /\ Len(aarc_nf.persons.rows)
             = Cardinality({r.PersonId : r \in RawRows})
        /\ Len(aarc_nf.departments.rows)
             = Cardinality({r.DepartmentId : r \in RawRows})
        /\ Len(aarc_nf.institutions.rows)
             = Cardinality({r.InstitutionId : r \in RawRows} \ {NULL})
        /\ Len(aarc_nf.appointments.rows)
             = Cardinality({<<r.PersonId, r.Year, r.DepartmentId, r.InstitutionId>> :
                              r \in RawRows})
        /\ Len(aarc_nf.umbrellas.rows)
             = Cardinality({r.Umbrella : r \in RawRows} \ {NULL})
        /\ Len(aarc_nf.fields.rows)
             = Cardinality({r.Field : r \in RawRows} \ {NULL})
        /\ Len(aarc_nf.department_taxonomies.rows)
             = Cardinality({<<r.DepartmentId, r.Umbrella, r.Field>> :
                              r \in RawRows})

(* C8 witness: two input rows repeat one key and yield a single row. *)
C8_Witness ==
    /\ aarc_nf # NONE
    /\ Len(aarc_sample_raw.rows) = 2
    /\ Len(aarc_nf.departments.rows) = 1
    /\ Len(aarc_nf.department_taxonomies.rows) = 1
    /\ Len(aarc_nf.persons.rows) = 2
    /\ Len(aarc_nf.appointments.rows) = 2

-----------------------------------------------------------------------------
(* The bundle and the database *)

(* The names of the ER diagram of cell c332ea5e. *)
DiagramNames ==
    {"persons", "institutions", "departments", "taxonomies",
     "department_taxonomy", "appointments"}

(* C9, as stated: the bundle exposes exactly the tables persons,
   institutions, departments, taxonomies, department_taxonomy and
   appointments, and every table a cell reads from it is one of these. *)
C9_BundleHasDiagramTables ==
    /\ aarc_nf # NONE => DOMAIN aarc_nf = DiagramNames
    /\ out.reads \subseteq DiagramNames

(* C9, amended: the bundle exposes exactly the tables persons, institutions,
   departments, appointments, umbrellas, fields and department_taxonomies,
   indexed by PersonId, InstitutionId, DepartmentId, (PersonId, Year,
   DepartmentId, InstitutionId), UmbrellaId and FieldId, department_taxonomies
   carrying DepartmentId, UmbrellaId and FieldId as columns; every table a
   cell reads from the bundle is one of these. *)
C9_BundleHasFixedTables ==
    /\ aarc_nf # NONE =>
          /\ DOMAIN aarc_nf = TableNames
          /\ aarc_nf.persons.index = <<"PersonId">>
          /\ aarc_nf.institutions.index = <<"InstitutionId">>
          /\ aarc_nf.departments.index = <<"DepartmentId">>
          /\ aarc_nf.appointments.index
               = <<"PersonId", "Year", "DepartmentId", "InstitutionId">>
          /\ aarc_nf.umbrellas.index = <<"UmbrellaId">>
          /\ aarc_nf.fields.index = <<"FieldId">>
          /\ aarc_nf.department_taxonomies.index = <<>>
          /\ aarc_nf.department_taxonomies.columns
               = {"DepartmentId", "UmbrellaId", "FieldId"}
    /\ out.reads # {} => aarc_nf # NONE /\ out.reads \subseteq DOMAIN aarc_nf

(* C9 witness: the umbrella join has read its two tables from the bundle. *)
C9_Witness ==
    /\ aarc_nf # NONE
    /\ out.cell = "7962e300"
    /\ out.reads = {"department_taxonomies", "umbrellas"}
    /\ Len(out.value) = 2

(* C10: once the persist cell has run, however often, the database holds
   exactly the relations persons and appointments, each with the index
   columns of its table as key columns, exactly the rows of the table, and
   no two rows with the same key. *)
C10_DatabaseHoldsLatestBundle ==
    conn # <<>> =>
        /\ DOMAIN conn = {"persons", "appointments"}
        /\ \A name \in DOMAIN conn :
             /\ conn[name].index_label = aarc_nf[name].index
             /\ conn[name].rows = aarc_nf[name].rows
             /\ \A n \in DOMAIN conn[name].rows :
                  DOMAIN conn[name].rows[n] = AllColumns(aarc_nf[name])
             /\ KeyUnique(conn[name].rows, conn[name].index_label)

(* C10 witness: the persist cell has run on a bundle of two appointments. *)
C10_Witness ==
    /\ out.cell = "fbefbe16"
    /\ conn # <<>>
    /\ Len(conn["appointments"].rows) = 2
    /\ Len(conn["persons"].rows) = 1

-----------------------------------------------------------------------------
GroupedTables == {"persons", "appointments", "institutions", "departments"}

(* the positions of the input rows that carry the key of a table row *)
GroupOf(t, g) ==
    {n \in DOMAIN aarc_sample_raw.rows :
        KeyOf(aarc_sample_raw.rows[n], t.index) = KeyOf(t.rows[g], t.index)}

(* C11: in every grouped table, the value stored for a key group and an
   attribute column is the first non-null value of that column among the
   input rows of the group, in input order, and null only when every row of
   the group is null there; rows that disagree raise no error. *)
C11_FirstNonNullKept ==
    aarc_nf # NONE =>
        /\ error = "none"
        /\ \A name \in GroupedTables :
             LET t   == aarc_nf[name]
                 raw == aarc_sample_raw.rows
             IN \A g \in DOMAIN t.rows :
                   LET grp == GroupOf(t, g)
                   IN /\ grp # {}
                      /\ \A c \in t.columns :
                            LET v == t.rows[g][c]
                            IN IF isna(v)
                               THEN \A n \in grp : isna(raw[n][c])
                               ELSE \E n \in grp :
                                       /\ raw[n][c] = v
                                       /\ \A m \in grp :
                                             m < n => isna(raw[m][c])

(* C11 witness: two input rows of one person give different genders, and the
   bundle keeps the gender of the first row. *)
C11_Witness ==
    /\ aarc_nf # NONE
    /\ error = "none"
    /\ Len(aarc_sample_raw.rows) = 2
    /\ aarc_sample_raw.rows[1].PersonId = aarc_sample_raw.rows[2].PersonId
    /\ ~isna(aarc_sample_raw.rows[1].Gender)
    /\ ~isna(aarc_sample_raw.rows[2].Gender)
    /\ aarc_sample_raw.rows[1].Gender # aarc_sample_raw.rows[2].Gender
    /\ Len(aarc_nf.persons.rows) = 1
    /\ aarc_nf.persons.rows[1].Gender = aarc_sample_raw.rows[1].Gender

-----------------------------------------------------------------------------
(* the tables with a synthesized key: table, id column, value column *)
SynthTables ==
    {<<"umbrellas", "UmbrellaId", "Umbrella">>, <<"fields", "FieldId", "Field">>}

(* the position of the first input row that carries value v in column col *)
FirstSeen(col, v) ==
    Min({n \in DOMAIN aarc_sample_raw.rows : aarc_sample_raw.rows[n][col] = v})

(* the id stored in a department_taxonomies row stands for the value v *)
MapsBack(t, id, col, fk, v) ==
    IF isna(v) THEN isna(fk)
    ELSE \E i \in DOMAIN t.rows : t.rows[i][id] = fk /\ t.rows[i][col] = v

(* C12: the ids synthesized for umbrellas (and fields) are the integers
   IdBase, IdBase + 1, ... given to the distinct values in the order of their
   first appearance in the input; ids and values are in bijection; every id
   used as a foreign key in department_taxonomies maps back to the value of
   the input row it stands for. *)
C12_SynthIdsDenseFirstSeenBijective ==
    aarc_nf # NONE =>
        LET raw == aarc_sample_raw.rows
            dt  == aarc_nf.department_taxonomies.rows
        IN /\ \A s \in SynthTables :
                LET t == aarc_nf[s[1]].rows
                IN /\ \A i \in DOMAIN t : t[i][s[2]] = IdBase + i - 1
                   /\ {t[i][s[3]] : i \in DOMAIN t}
                         = {raw[n][s[3]] : n \in DOMAIN raw} \ {NULL}
                   /\ \A i, j \in DOMAIN t :
                         t[i][s[3]] = t[j][s[3]] => i = j
                   /\ \A i, j \in DOMAIN t :
                         i < j => FirstSeen(s[3], t[i][s[3]])
                                    < FirstSeen(s[3], t[j][s[3]])
           /\ \A n \in DOMAIN raw : \E k \in DOMAIN dt :
                /\ dt[k].DepartmentId = raw[n].DepartmentId
                /\ \A s \in SynthTables :
                      MapsBack(aarc_nf[s[1]], s[2], s[3],
                               dt[k][s[2]], raw[n][s[3]])
           /\ \A k \in DOMAIN dt : \E n \in DOMAIN raw :
                /\ dt[k].DepartmentId = raw[n].DepartmentId
                /\ \A s \in SynthTables :
                      MapsBack(aarc_nf[s[1]], s[2], s[3],
                               dt[k][s[2]], raw[n][s[3]])

(* C12 witness: the larger umbrella name comes first in the input and gets
   the id IdBase; both ids are used in department_taxonomies. *)
C12_Witness ==
    /\ aarc_nf # NONE
    /\ Len(aarc_sample_raw.rows) = 2
    /\ aarc_sample_raw.rows[1].Umbrella > aarc_sample_raw.rows[2].Umbrella
    /\ Len(aarc_nf.umbrellas.rows) = 2
    /\ aarc_nf.umbrellas.rows[1]
         = [UmbrellaId |-> IdBase, Umbrella |-> aarc_sample_raw.rows[1].Umbrella]
    /\ {r.UmbrellaId : r \in Range(aarc_nf.department_taxonomies.rows)}
         = {IdBase, IdBase + 1}

-----------------------------------------------------------------------------
(* the left joins of the notebook: cells 7962e300, fa5a0faf and 5c2b4755 *)
LeftJoins ==
    <<[t     |-> aarc_nf.department_taxonomies,
       other |-> aarc_nf.umbrellas,
       on    |-> "UmbrellaId"],
      [t     |-> aarc_nf.appointments,
       other |-> Project(aarc_nf.persons, {"Gender"}),
       on    |-> "PersonId"],
      [t     |-> aarc_nf.department_taxonomies,
       other |-> aarc_nf.fields,
       on    |-> "FieldId"]>>

(* the result holds the rows of the calling table, each once and in order *)
KeepsRows(t, res) ==
    /\ Len(res) = Len(t.rows)
    /\ \A n \in DOMAIN res : \A c \in AllColumns(t) : res[n][c] = t.rows[n][c]

JoinedNull(other, row) == \A c \in other.columns : isna(row[c])

(* C13, as stated: a left join of a relationship table against the entity
   table it refers to keeps every row of the relationship table exactly once,
   and a result row has null joined attributes only if its foreign key is
   null. *)
C13_LeftJoinNullOnlyForNullKey ==
    /\ aarc_nf # NONE =>
          \A k \in DOMAIN LeftJoins :
             LET j   == LeftJoins[k]
                 res == join(j.t, j.other, j.on, "left").rows
             IN /\ KeepsRows(j.t, res)
                /\ \A n \in DOMAIN res :
                      JoinedNull(j.other, res[n]) => isna(res[n][j.on])
    /\ l_join # NONE =>
          /\ KeepsRows(aarc_nf.department_taxonomies, l_join.rows)
          /\ \A n \in DOMAIN l_join.rows :
                isna(l_join.rows[n].Field) => isna(l_join.rows[n].FieldId)

(* C13, amended: a left join of a relationship table against the entity
   table it refers to keeps every row of the relationship table exactly once;
   a row whose foreign key is null has null joined attributes, every other
   row carries the attributes of the entity row with that key, so that a
   result row has null joined attributes only if its foreign key is null or
   the entity row itself holds nulls.  For fields, whose Field is never null,
   Field is null in l_join exactly where FieldId is null. *)
C13_LeftJoinNullOnlyForNullKeyOrNullEntity ==
    /\ aarc_nf # NONE =>
          \A k \in DOMAIN LeftJoins :
             LET j   == LeftJoins[k]
                 res == join(j.t, j.other, j.on, "left").rows
                 key == j.other.index[1]
             IN /\ KeepsRows(j.t, res)
                /\ \A n \in DOMAIN res :
                      IF isna(res[n][j.on])
                      THEN JoinedNull(j.other, res[n])
                      ELSE \E e \in Range(j.other.rows) :
                              /\ e[key] = res[n][j.on]
                              /\ \A c \in j.other.columns : res[n][c] = e[c]
    /\ l_join # NONE =>
          /\ KeepsRows(aarc_nf.department_taxonomies, l_join.rows)
          /\ \A n \in DOMAIN l_join.rows :
                isna(l_join.rows[n].Field) <=> isna(l_join.rows[n].FieldId)

(* C13 witness: cell 5c2b4755 has joined two department_taxonomies rows, one
   without FieldId, which has no Field, and one with FieldId and Field. *)
C13_Witness ==
    /\ l_join # NONE
    /\ Len(aarc_nf.department_taxonomies.rows) = 2
    /\ Len(l_join.rows) = 2
    /\ \E n \in DOMAIN l_join.rows :
          isna(l_join.rows[n].FieldId) /\ isna(l_join.rows[n].Field)
    /\ \E n \in DOMAIN l_join.rows :
          ~isna(l_join.rows[n].FieldId) /\ ~isna(l_join.rows[n].Field)

-----------------------------------------------------------------------------
(* C14: the right join of department_taxonomies with fields on FieldId keeps
   every row of fields and drops the department_taxonomies rows without
   FieldId: no row of r_join has a null FieldId, every FieldId of fields
   appears with its Field, and the rows of r_join are the rows of
   department_taxonomies that have a FieldId. *)
C14_RightJoinKeepsFieldsDropsNullFieldId ==
    r_join # NONE =>
        LET dt == aarc_nf.department_taxonomies
            f  == aarc_nf.fields
            r  == r_join.rows
        IN /\ \A n \in DOMAIN r : ~isna(r[n].FieldId)
           /\ {r[n].FieldId : n \in DOMAIN r} = KeyValues(f)
           /\ \A e \in Range(f.rows) : \E n \in DOMAIN r :
                 r[n].FieldId = e.FieldId /\ r[n].Field = e.Field
           /\ Len(r) = Cardinality({n \in DOMAIN dt.rows :
                                       ~isna(dt.rows[n].FieldId)})
           /\ \A n \in DOMAIN r :
                 [c \in dt.columns |-> r[n][c]] \in Range(dt.rows)

(* C14 witness: cell 2497661a has joined two department_taxonomies rows, one
   of them without FieldId, and kept the other one only. *)
C14_Witness ==
    /\ r_join # NONE
    /\ Len(aarc_nf.department_taxonomies.rows) = 2
    /\ \E n \in DOMAIN aarc_nf.department_taxonomies.rows :
          isna(aarc_nf.department_taxonomies.rows[n].FieldId)
    /\ Len(aarc_nf.fields.rows) = 1
    /\ Len(r_join.rows) = 1
    /\ r_join.rows[1].FieldId = aarc_nf.fields.rows[1].FieldId

-----------------------------------------------------------------------------
(* the rows of appointments that carry the values of an input row in the
   columns by *)
AppointmentsOf(row, by) ==
    {g \in DOMAIN aarc_nf.appointments.rows :
        KeyOf(aarc_nf.appointments.rows[g], by) = KeyOf(row, by)}

(* C15: every combination of (PersonId, Year, DepartmentId, InstitutionId)
   of the flat table, a null InstitutionId included, has exactly one row in
   appointments, every row of appointments is such a combination, and no
   (PersonId, Year, DepartmentId) of the flat table is missing. *)
C15_EveryAppointmentKept ==
    aarc_nf # NONE =>
        /\ \A r \in RawRows :
              Cardinality(AppointmentsOf(r, AppointmentKey)) = 1
        /\ \A g \in DOMAIN aarc_nf.appointments.rows : \E r \in RawRows :
              g \in AppointmentsOf(r, AppointmentKey)
        /\ \A r \in RawRows :
              AppointmentsOf(r, <<"PersonId", "Year", "DepartmentId">>) # {}

(* C15 witness: a person appointed without InstitutionId, and a second input
   row; both combinations are rows of appointments. *)
C15_Witness ==
    /\ aarc_nf # NONE
    /\ Len(aarc_sample_raw.rows) = 2
    /\ isna(aarc_sample_raw.rows[1].InstitutionId)
    /\ KeyOf(aarc_sample_raw.rows[1], AppointmentKey)
         # KeyOf(aarc_sample_raw.rows[2], AppointmentKey)
    /\ Len(aarc_nf.appointments.rows) = 2
    /\ \E g \in DOMAIN aarc_nf.appointments.rows :
          /\ isna(aarc_nf.appointments.rows[g].InstitutionId)
          /\ aarc_nf.appointments.rows[g].PersonId
               = aarc_sample_raw.rows[1].PersonId

====
